---- MODULE Spec2Model ----
(***************************************************************************)
(* Model of eip_cleanup.py: the detector of unassociated Elastic IPs.      *)
(*                                                                         *)
(* A Python str is a sequence of one-character strings, so that split()    *)
(* and strip() are computed and not assumed.  None is the one-element      *)
(* sequence None, a dictionary key that is absent is Missing; neither is a *)
(* sequence of characters of the alphabets used below.                     *)
(***************************************************************************)
EXTENDS Integers, Sequences, FiniteSets, TLC

\* ------------------------------------------------------------------ bounds
MaxAddrs == 2      \* addresses per region in the two-region runs
MaxArgLen == 4     \* characters of the --regions argument
MaxFileLen == 4    \* characters of the allow-list file

\* ------------------------------------------------------------ Python values
None == <<"<None>">>
Missing == <<"<missing>">>
Empty == <<>>
NL == "\n"
Whitespace == {" ", NL}

SeqsUpTo(S, n) == UNION {[1..k -> S] : k \in 0..n}

\* truth value of a Python object (None and "" are false)
Truthy(x) == x # None /\ x # Empty

\* x or y
PyOr(x, y) == IF Truthy(x) THEN x ELSE y

\* dict.get(key): None when the key is absent
Get(d, key) == IF d[key] = Missing THEN None ELSE d[key]

RECURSIVE LStrip(_)
LStrip(s) == IF s # <<>> /\ Head(s) \in Whitespace THEN LStrip(Tail(s)) ELSE s

RECURSIVE RStrip(_)
RStrip(s) ==
    IF s # <<>> /\ s[Len(s)] \in Whitespace
    THEN RStrip(SubSeq(s, 1, Len(s) - 1))
    ELSE s

\* str.strip(); StripNewlineOnly is rstrip("\n")
StripNewlineOnly(s) == IF s # <<>> /\ s[Len(s)] = NL THEN SubSeq(s, 1, Len(s) - 1) ELSE s
Strip(s) == LStrip(RStrip(s))

\* index of the first occurrence of c in s, 0 when there is none
FirstIndex(s, c) ==
    IF \E k \in 1..Len(s) : s[k] = c
    THEN CHOOSE k \in 1..Len(s) : s[k] = c /\ \A m \in 1..(k - 1) : s[m] # c
    ELSE 0

\* str.split(sep) for a one-character separator
RECURSIVE Split(_, _)
Split(s, sep) ==
    LET k == FirstIndex(s, sep)
    IN  IF k = 0
        THEN <<s>>
        ELSE <<SubSeq(s, 1, k - 1)>> \o Split(SubSeq(s, k + 1, Len(s)), sep)

\* iteration over a text file: each line keeps its newline, the last one
\* may lack it
RECURSIVE ReadLines(_)
ReadLines(content) ==
    LET k == FirstIndex(content, NL)
    IN  IF content = <<>>
        THEN <<>>
        ELSE IF k = 0
        THEN <<content>>
        ELSE <<SubSeq(content, 1, k)>> \o ReadLines(SubSeq(content, k + 1, Len(content)))

\* ------------------------------------------------------------- get_regions
DefaultRegion == <<"u", "s", "-", "e", "a", "s", "t", "-", "1">>

StripAll(parts) == [k \in 1..Len(parts) |-> Strip(parts[k])]
NonEmpty(r) == r # <<>>

get_regions(region_arg) ==
    IF Truthy(region_arg)
    THEN SelectSeq(StripAll(Split(region_arg, ",")), NonEmpty)
    ELSE <<DefaultRegion>>

\* ---------------------------------------------------------- load_whitelist
\* the result of a call: the exception raised ("none" when it returns) and
\* the value returned
Returns(v) == [exc |-> "none", value |-> v]
Raises(e) == [exc |-> e, value |-> {}]

RECURSIVE AddLines(_, _)
AddLines(lines, wl) ==
    IF lines = <<>>
    THEN wl
    ELSE LET val == Strip(Head(lines))
         IN  AddLines(Tail(lines), IF val # <<>> THEN wl \cup {val} ELSE wl)

\* load_whitelist without its except clause
load_whitelist_uncaught(path, f) ==
    IF ~Truthy(path)
    THEN Returns({})
    ELSE IF f.kind = "missing"
    THEN Raises("FileNotFoundError")
    ELSE IF f.kind = "unreadable"
    THEN Raises("OSError")
    ELSE Returns(AddLines(ReadLines(f.content), {}))

\* load_whitelist with "except Exception"
load_whitelist_swallowing(path, f) ==
    IF ~Truthy(path)
    THEN Returns({})
    ELSE IF f.kind = "missing"
    THEN Returns({})
    ELSE IF f.kind = "unreadable"
    THEN Returns({})
    ELSE Returns(AddLines(ReadLines(f.content), {}))

load_whitelist(path, f) ==
    IF ~Truthy(path)
    THEN Returns({})
    ELSE IF f.kind = "missing"
    THEN Returns({})
    ELSE IF f.kind = "unreadable"
    THEN Raises("OSError")
    ELSE Returns(AddLines(ReadLines(f.content), {}))

\* ------------------------------------------- find_unassociated_in_region
\* associated without the NetworkInterfaceId operand
associated_two_way(addr) ==
    Truthy(PyOr(Get(addr, "AssociationId"), Get(addr, "InstanceId")))

\* bool(AssociationId or InstanceId or NetworkInterfaceId)
associated(addr) ==
    Truthy(PyOr(PyOr(Get(addr, "AssociationId"), Get(addr, "InstanceId")),
                Get(addr, "NetworkInterfaceId")))

\* the membership test inverted
InWhitelistInverted(allocation_id, wl) == Truthy(allocation_id) /\ allocation_id \notin wl

\* allocation_id and allocation_id in whitelist
InWhitelist(allocation_id, wl) == Truthy(allocation_id) /\ allocation_id \in wl

\* the dictionary appended to results
Candidate(region, addr) ==
    [Region |-> region,
     PublicIp |-> Get(addr, "PublicIp"),
     AllocationId |-> Get(addr, "AllocationId")]

\* resp.get("Addresses", [])
Addresses(r) == IF "Addresses" \in DOMAIN r THEN r["Addresses"] ELSE <<>>

\* ------------------------------------------------------------------ inputs
U == <<"u">>
S == <<"s">>
KnownRegions == {U, S, DefaultRegion}

RegionChars == {"u", "s", ",", " "}
FileChars == {"a", "b", " ", NL}
OptIds == {Missing, Empty, <<"x">>}

AddressRecords ==
    [AssociationId : OptIds, InstanceId : OptIds, NetworkInterfaceId : OptIds,
     AllocationId : {Missing, Empty, <<"a">>, <<"b">>},
     PublicIp : {Missing, <<"1">>}]

Addr(assoc, alloc) ==
    [AssociationId |-> assoc, InstanceId |-> Missing, NetworkInterfaceId |-> Missing,
     AllocationId |-> alloc, PublicIp |-> <<"1">>]

\* idle and allow-listed, idle, idle, associated
CoreRecords ==
    {Addr(Missing, <<"a">>), Addr(Missing, <<"b">>), Addr(Missing, <<"c">>),
     Addr(<<"x">>, <<"b">>)}

Response(addrs) == [Addresses |-> addrs]
NoAddresses == [ResponseMetadata |-> <<>>]
Provider(u, s, d) ==
    [r \in KnownRegions |-> IF r = U THEN u ELSE IF r = S THEN s ELSE d]

FileOf(c) == [kind |-> "file", content |-> c]
NoFile == [kind |-> "missing", content |-> <<>>]
Unreadable == [kind |-> "unreadable", content |-> <<>>]
AllowA == FileOf(<<"a", NL>>)
ExampleFile == FileOf(<<"a", NL, NL, "b", NL, "b", NL>>)
Path == <<"p">>

\* runs over two regions, every inventory of the core records
DriverInputs ==
    {[args |-> [apply |-> ap, regions |-> rg, whitelist |-> Path],
      file |-> AllowA,
      provider |-> Provider(Response(a), Response(b), Response(<<>>))] :
        ap \in BOOLEAN,
        rg \in {<<"u", ",", "s">>, <<"u", ",", "u">>},
        a \in SeqsUpTo(CoreRecords, MaxAddrs),
        b \in SeqsUpTo(CoreRecords, MaxAddrs)}

\* runs over one region, every address record next to a fixed idle one
DetectorInputs ==
    {[args |-> [apply |-> FALSE, regions |-> U, whitelist |-> Path],
      file |-> AllowA,
      provider |-> Provider(inv, Response(<<>>), Response(<<>>))] :
        inv \in {NoAddresses}
                \cup {Response(<<r>>) : r \in AddressRecords}
                \cup {Response(<<r, Addr(Missing, <<"b">>)>>) : r \in AddressRecords}
                \cup {Response(<<Addr(Missing, <<"b">>), r>>) : r \in AddressRecords}}

\* runs over the default region, every allow-list file
WhitelistInputs ==
    {[args |-> [apply |-> FALSE, regions |-> None, whitelist |-> p],
      file |-> f,
      provider |-> Provider(Response(<<>>), Response(<<>>),
                            Response(<<Addr(Missing, <<"a">>), Addr(<<"x">>, <<"b">>),
                                       Addr(Missing, <<"b">>), Addr(Missing, Empty)>>))] :
        p \in {None, Empty, Path},
        f \in {NoFile, Unreadable, ExampleFile}
              \cup {FileOf(c) : c \in SeqsUpTo(FileChars, MaxFileLen)}}

\* every --regions argument
RegionInputs ==
    {[args |-> [apply |-> FALSE, regions |-> rg, whitelist |-> None],
      file |-> NoFile,
      provider |-> Provider(Response(<<Addr(Missing, <<"a">>)>>),
                            Response(<<Addr(Missing, <<"b">>), Addr(<<"x">>, <<"a">>)>>),
                            Response(<<Addr(Missing, <<"a">>)>>))] :
        rg \in {None} \cup SeqsUpTo(RegionChars, MaxArgLen)}

Inputs == DriverInputs \cup DetectorInputs \cup WhitelistInputs \cup RegionInputs

\* ------------------------------------------------------------------- state
VARIABLES
    args,       \* the parsed command line
    file,       \* the file at the --whitelist path
    provider,   \* the account: region -> describe_addresses response
    pc,         \* position of the script
    exc,        \* the exception that ended the run, "none" otherwise
    regions,    \* regions (main)
    whitelist,  \* whitelist (main)
    i,          \* index in regions of the for loop of main
    resp,       \* Addresses of the response being classified
    j,          \* index in resp of the for loop of find_unassociated_in_region
    results,    \* results (find_unassociated_in_region)
    all_unassociated_eips,
    scans,      \* one entry per finished call of find_unassociated_in_region
    calls,      \* the calls made to the provider
    log         \* the messages logged that carry data

vars == <<args, file, provider, pc, exc, regions, whitelist, i, resp, j,
          results, all_unassociated_eips, scans, calls, log>>

Init ==
    /\ \E inp \in Inputs :
        /\ args = inp.args
        /\ file = inp.file
        /\ provider = inp.provider
    /\ pc = "start"
    /\ exc = "none"
    /\ regions = <<>>
    /\ whitelist = {}
    /\ i = 1
    /\ resp = <<>>
    /\ j = 1
    /\ results = <<>>
    /\ all_unassociated_eips = <<>>
    /\ scans = <<>>
    /\ calls = <<>>
    /\ log = <<>>

\* ----------------------------------------------------------------- actions
\* regions = get_regions(args.regions)
GetRegions ==
    /\ pc = "start"
    /\ regions' = get_regions(args.regions)
    /\ pc' = "load"
    /\ UNCHANGED <<args, file, provider, exc, whitelist, i, resp, j, results,
                   all_unassociated_eips, scans, calls, log>>

\* whitelist = load_whitelist(args.whitelist); all_unassociated_eips = []
LoadWhitelist ==
    /\ pc = "load"
    /\ LET r == load_whitelist(args.whitelist, file)
       IN  IF r.exc = "none"
           THEN /\ whitelist' = r.value
                /\ pc' = "loop"
                /\ exc' = exc
           ELSE /\ whitelist' = whitelist
                /\ pc' = "aborted"
                /\ exc' = r.exc
    /\ UNCHANGED <<args, file, provider, regions, i, resp, j, results,
                   all_unassociated_eips, scans, calls, log>>

\* boto3.client(...) raises: it is called outside the try block
ClientRaises ==
    /\ pc = "loop"
    /\ i <= Len(regions)
    /\ regions[i] \notin KnownRegions
    /\ pc' = "aborted"
    /\ exc' = "ClientError"
    /\ UNCHANGED <<args, file, provider, regions, whitelist, i, resp, j, results,
                   all_unassociated_eips, scans, calls, log>>

\* FetchFails without the try block: the exception leaves the function
FetchFailsPropagates ==
    /\ pc = "loop"
    /\ i <= Len(regions)
    /\ calls' = Append(calls, <<"describe_addresses", regions[i]>>)
    /\ pc' = "aborted"
    /\ exc' = "FetchError"
    /\ UNCHANGED <<args, file, provider, regions, whitelist, i, resp, j, results,
                   all_unassociated_eips, scans, log>>

\* describe_addresses raises: the function returns [], main logs the count
\* and extends the report by nothing
FetchFails ==
    /\ pc = "loop"
    /\ i <= Len(regions)
    /\ calls' = Append(calls, <<"describe_addresses", regions[i]>>)
    /\ log' = log \o <<<<"fetch_error", regions[i]>>, <<"count", regions[i], 0>>>>
    /\ scans' = Append(scans, [region |-> regions[i], fetched |-> FALSE, out |-> <<>>])
    /\ all_unassociated_eips' = all_unassociated_eips \o <<>>
    /\ i' = i + 1
    /\ UNCHANGED <<args, file, provider, pc, exc, regions, whitelist, resp, j, results>>

\* describe_addresses returns; results = []
FetchReturns ==
    /\ pc = "loop"
    /\ i <= Len(regions)
    /\ regions[i] \in KnownRegions
    /\ calls' = Append(calls, <<"describe_addresses", regions[i]>>)
    /\ resp' = Addresses(provider[regions[i]])
    /\ results' = <<>>
    /\ j' = 1
    /\ pc' = "scan"
    /\ UNCHANGED <<args, file, provider, exc, regions, whitelist, i,
                   all_unassociated_eips, scans, log>>

\* ClassifyAddr of the early draft: the loop ends at the first idle address
ClassifyAddrEarlyReturn ==
    /\ pc = "scan"
    /\ j <= Len(resp)
    /\ LET addr == resp[j]
           allocation_id == Get(addr, "AllocationId")
       IN  IF InWhitelist(allocation_id, whitelist)
           THEN IF addr["PublicIp"] = Missing
                THEN /\ pc' = "aborted"
                     /\ exc' = "KeyError"
                     /\ UNCHANGED <<j, results, log>>
                ELSE /\ log' = Append(log, <<"skip", regions[i], addr["PublicIp"], allocation_id>>)
                     /\ j' = j + 1
                     /\ UNCHANGED <<pc, exc, results>>
           ELSE IF ~associated(addr)
           THEN /\ results' = Append(results, Candidate(regions[i], addr))
                /\ j' = Len(resp) + 1
                /\ UNCHANGED <<pc, exc, log>>
           ELSE /\ j' = j + 1
                /\ UNCHANGED <<pc, exc, results, log>>
    /\ UNCHANGED <<args, file, provider, regions, whitelist, i, resp,
                   all_unassociated_eips, scans, calls>>

\* one iteration of the loop over the addresses
ClassifyAddr ==
    /\ pc = "scan"
    /\ j <= Len(resp)
    /\ LET addr == resp[j]
           allocation_id == Get(addr, "AllocationId")
       IN  IF InWhitelist(allocation_id, whitelist)
           THEN IF addr["PublicIp"] = Missing
                THEN /\ pc' = "aborted"
                     /\ exc' = "KeyError"
                     /\ UNCHANGED <<j, results, log>>
                ELSE /\ log' = Append(log, <<"skip", regions[i], addr["PublicIp"], allocation_id>>)
                     /\ j' = j + 1
                     /\ UNCHANGED <<pc, exc, results>>
           ELSE IF ~associated(addr)
           THEN /\ results' = Append(results, Candidate(regions[i], addr))
                /\ j' = j + 1
                /\ UNCHANGED <<pc, exc, log>>
           ELSE /\ j' = j + 1
                /\ UNCHANGED <<pc, exc, results, log>>
    /\ UNCHANGED <<args, file, provider, regions, whitelist, i, resp,
                   all_unassociated_eips, scans, calls>>

\* the addresses of addrs that are not among the candidates released
Remaining(addrs, released) ==
    SelectSeq(addrs, LAMBDA a : \A k \in 1..Len(released) :
                                   released[k]["AllocationId"] # Get(a, "AllocationId"))

\* ReturnResults of a script that acts on --apply: the candidates of the
\* region are released
ReturnResultsReleasing ==
    /\ pc = "scan"
    /\ j > Len(resp)
    /\ scans' = Append(scans, [region |-> regions[i], fetched |-> TRUE, out |-> results])
    /\ log' = Append(log, <<"count", regions[i], Len(results)>>)
    /\ all_unassociated_eips' = all_unassociated_eips \o results
    /\ i' = i + 1
    /\ pc' = "loop"
    /\ IF args.apply
       THEN /\ calls' = calls \o [k \in 1..Len(results) |->
                                    <<"release_address", results[k]["AllocationId"]>>]
            /\ provider' = [provider EXCEPT ![regions[i]] =
                                Response(Remaining(resp, results))]
       ELSE UNCHANGED <<calls, provider>>
    /\ UNCHANGED <<args, file, exc, regions, whitelist, resp, j, results>>

\* ReturnResults with the report extended at the front
ReturnResultsPrepending ==
    /\ pc = "scan"
    /\ j > Len(resp)
    /\ scans' = Append(scans, [region |-> regions[i], fetched |-> TRUE, out |-> results])
    /\ log' = Append(log, <<"count", regions[i], Len(results)>>)
    /\ all_unassociated_eips' = results \o all_unassociated_eips
    /\ i' = i + 1
    /\ pc' = "loop"
    /\ UNCHANGED <<args, file, provider, exc, regions, whitelist, resp, j, results,
                   calls>>

\* return results; main logs the count and extends the report
ReturnResults ==
    /\ pc = "scan"
    /\ j > Len(resp)
    /\ scans' = Append(scans, [region |-> regions[i], fetched |-> TRUE, out |-> results])
    /\ log' = Append(log, <<"count", regions[i], Len(results)>>)
    /\ all_unassociated_eips' = all_unassociated_eips \o results
    /\ i' = i + 1
    /\ pc' = "loop"
    /\ UNCHANGED <<args, file, provider, exc, regions, whitelist, resp, j, results,
                   calls>>

\* the final summary
Summary ==
    /\ pc = "loop"
    /\ i > Len(regions)
    /\ log' = IF all_unassociated_eips # <<>>
              THEN log \o <<<<"total", Len(all_unassociated_eips)>>>>
                       \o [k \in 1..Len(all_unassociated_eips) |->
                              <<"eip", all_unassociated_eips[k]>>]
              ELSE Append(log, <<"none_found">>)
    /\ pc' = "done"
    /\ UNCHANGED <<args, file, provider, exc, regions, whitelist, i, resp, j,
                   results, all_unassociated_eips, scans, calls>>

Next ==
    \/ GetRegions
    \/ LoadWhitelist
    \/ ClientRaises
    \/ FetchFails
    \/ FetchReturns
    \/ ClassifyAddr
    \/ ReturnResults
    \/ Summary

Spec == Init /\ [][Next]_vars

\* ------------------------------------------------------------ properties
\* what the properties say of one address record, in the words of the
\* specification and not of the code
AssocFields == {"AssociationId", "InstanceId", "NetworkInterfaceId"}
Present(v) == v \notin {Missing, None, Empty}
AnyFieldPresent(addr) == \E f \in AssocFields : Present(addr[f])
AllowListed(addr, wl) == addr["AllocationId"] # Missing /\ addr["AllocationId"] \in wl
OrNone(v) == IF v = Missing THEN None ELSE v
CandidateOf(region, addr) ==
    [Region |-> region, PublicIp |-> OrNone(addr["PublicIp"]),
     AllocationId |-> OrNone(addr["AllocationId"])]
IdleIndexes(addrs, wl) ==
    {k \in 1..Len(addrs) : ~AnyFieldPresent(addrs[k]) /\ ~AllowListed(addrs[k], wl)}

\* the idle, not allow-listed records of an inventory, in inventory order
RECURSIVE ExpectedOut(_, _, _)
ExpectedOut(region, addrs, wl) ==
    IF addrs = <<>>
    THEN <<>>
    ELSE LET rest == ExpectedOut(region, Tail(addrs), wl)
         IN  IF ~AnyFieldPresent(Head(addrs)) /\ ~AllowListed(Head(addrs), wl)
             THEN <<CandidateOf(region, Head(addrs))>> \o rest
             ELSE rest

RECURSIVE Concat(_)
Concat(seqs) == IF seqs = <<>> THEN <<>> ELSE Head(seqs) \o Concat(Tail(seqs))

RECURSIVE SumSeq(_)
SumSeq(ns) == IF ns = <<>> THEN 0 ELSE Head(ns) + SumSeq(Tail(ns))

Classifying == pc = "scan" /\ j <= Len(resp)
LoopFinished == pc = "scan" /\ j > Len(resp)

\* C1: a record with any one of AssociationId, InstanceId, NetworkInterfaceId
\* present and non-empty never adds a candidate to the output, and the output
\* never holds more candidates than there are records with none of the three.
C1_AssociatedExcluded ==
    /\ [][(Classifying /\ AnyFieldPresent(resp[j])) => results' = results]_vars
    /\ [](pc = "scan" =>
            Len(results) <= Cardinality({k \in 1..(j - 1) : ~AnyFieldPresent(resp[k])}))

C1_Witness ==
    /\ LoopFinished
    /\ Len(resp) = 1
    /\ ~Present(resp[1]["AssociationId"])
    /\ ~Present(resp[1]["InstanceId"])
    /\ Present(resp[1]["NetworkInterfaceId"])
    /\ ~AllowListed(resp[1], whitelist)
    /\ results = <<>>

\* C2: when the loop over a fetched inventory ends, results holds one candidate
\* {Region, PublicIp, AllocationId} for every record with the three fields
\* null or empty and an AllocationId not in the allow-list (a null
\* AllocationId included), and as many candidates as there are such records.
C2_AllIdleCollected ==
    LoopFinished =>
        /\ Len(results) = Cardinality(IdleIndexes(resp, whitelist))
        /\ \A k \in IdleIndexes(resp, whitelist) :
              \E m \in 1..Len(results) : results[m] = CandidateOf(regions[i], resp[k])

C2_Witness ==
    /\ LoopFinished
    /\ Len(resp) = 2
    /\ IdleIndexes(resp, whitelist) = {1, 2}
    /\ resp[2]["AllocationId"] = Missing
    /\ Len(results) = 2

\* C3: a record whose AllocationId is non-null and in the allow-list never adds
\* a candidate, associated or idle, and no candidate of the output or of the
\* aggregated report has an AllocationId of the allow-list.
C3_AllowListedExcluded ==
    /\ [][(Classifying /\ AllowListed(resp[j], whitelist)) => results' = results]_vars
    /\ [](\A k \in 1..Len(all_unassociated_eips) :
            all_unassociated_eips[k]["AllocationId"] \notin whitelist)
    /\ [](pc = "scan" =>
            \A k \in 1..Len(results) : results[k]["AllocationId"] \notin whitelist)

C3_Witness ==
    /\ pc = "done"
    /\ whitelist = {<<"a">>}
    /\ \E k \in 1..Len(log) : log[k][1] = "skip"
    /\ \E r \in DOMAIN provider :
          \E k \in 1..Len(Addresses(provider[r])) :
              /\ AllowListed(Addresses(provider[r])[k], whitelist)
              /\ ~AnyFieldPresent(Addresses(provider[r])[k])
    /\ all_unassociated_eips # <<>>

\* C4: a step in which the fetch of a region fails does not abort the run, adds
\* nothing to the report and moves on to the next region; when the run is done
\* every region was scanned, and every region whose fetch returned contributed
\* the candidates of its own inventory, whichever other fetches failed.
C4_FetchFailureIsolated ==
    /\ [][(calls' # calls /\ pc' # "scan") =>
            /\ pc' = "loop"
            /\ exc' = "none"
            /\ i' = i + 1
            /\ all_unassociated_eips' = all_unassociated_eips
            /\ scans' = Append(scans, [region |-> regions[i], fetched |-> FALSE,
                                       out |-> <<>>])]_vars
    /\ [](pc = "done" =>
            /\ Len(scans) = Len(regions)
            /\ \A k \in 1..Len(scans) :
                  scans[k].out =
                      IF scans[k].fetched
                      THEN ExpectedOut(regions[k], Addresses(provider[regions[k]]),
                                       whitelist)
                      ELSE <<>>
            /\ all_unassociated_eips = Concat([k \in 1..Len(scans) |-> scans[k].out]))

C4_Witness ==
    /\ pc = "done"
    /\ Len(scans) = 2
    /\ ~scans[1].fetched
    /\ scans[2].fetched
    /\ scans[2].out # <<>>
    /\ all_unassociated_eips = scans[2].out

\* the lines of the file as the file format defines them: x is the trimmed
\* text of a line when it lies between two positions of the content, starts
\* and ends with a character that is not white space, holds no newline, and
\* only blanks separate it from the start and from the end of its line
LineStartsAt(c, a) == a = 1 \/ c[a - 1] = NL
TrimmedLines(c) ==
    {SubSeq(c, a, b) : <<a, b>> \in
        {ab \in (1..Len(c)) \X (1..Len(c)) :
            /\ ab[1] <= ab[2]
            /\ c[ab[1]] \notin Whitespace
            /\ c[ab[2]] \notin Whitespace
            /\ \A k \in ab[1]..ab[2] : c[k] # NL
            /\ \E ls \in 1..ab[1] :
                  /\ LineStartsAt(c, ls)
                  /\ \A k \in ls..(ab[1] - 1) : c[k] = " "
            /\ \E le \in ab[2]..Len(c) :
                  /\ le = Len(c) \/ c[le + 1] = NL
                  /\ \A k \in (ab[2] + 1)..le : c[k] = " "}}

Loaded == pc \notin {"start", "load"}

\* C5: for a readable file load_whitelist returns exactly the set of the
\* non-empty trimmed lines of the file; no element is empty or starts or ends
\* with white space; the content "a\n\nb\nb\n" gives {"a", "b"}.
C5_WhitelistIsTrimmedLines ==
    (Loaded /\ Truthy(args.whitelist) /\ file.kind = "file") =>
        /\ exc \notin {"OSError", "FileNotFoundError"}
        /\ whitelist = TrimmedLines(file.content)
        /\ \A x \in whitelist :
              x # <<>> /\ x[1] \notin Whitespace /\ x[Len(x)] \notin Whitespace
        /\ file = ExampleFile => whitelist = {<<"a">>, <<"b">>}

C5_Witness ==
    /\ pc = "loop"
    /\ args.whitelist = Path
    /\ file.kind = "file"
    /\ file.content = <<" ", "a", " ", NL>>
    /\ whitelist = {<<"a">>}

\* C6: with no path (None or "") and with a path to a file that does not
\* exist, load_whitelist returns the empty set and raises nothing, and no
\* record is skipped by the allow-list filter afterwards.
NoAllowList == ~Present(args.whitelist) \/ file.kind = "missing"
C6_NoWhitelistNoFiltering ==
    /\ [][(pc = "load" /\ NoAllowList) =>
            (pc' = "loop" /\ exc' = "none" /\ whitelist' = {})]_vars
    /\ []((Loaded /\ NoAllowList) =>
            /\ whitelist = {}
            /\ \A k \in 1..Len(log) : log[k][1] # "skip")

C6_Witness ==
    /\ pc = "done"
    /\ args.whitelist = Path
    /\ file.kind = "missing"
    /\ whitelist = {}
    /\ Len(all_unassociated_eips) = 3

\* what a run reports, from its regions, the fetches that returned, the
\* account and the allow-list; --apply is not among them
ReportOf(rgs, fetched, prov, wl) ==
    Concat([k \in 1..Len(rgs) |->
               IF fetched[k] THEN ExpectedOut(rgs[k], Addresses(prov[rgs[k]]), wl)
               ELSE <<>>])

NamesNoRegion(arg) == arg = None \/ \A k \in 1..Len(arg) : arg[k] \in {",", " "}
CountsLogged == SelectSeq(log, LAMBDA e : e[1] = "count")
C9_ReportIsConcatenation ==
    pc = "done" =>
        /\ Len(scans) = Len(regions)
        /\ all_unassociated_eips = Concat([k \in 1..Len(scans) |-> scans[k].out])
        /\ Len(all_unassociated_eips) =
              SumSeq([k \in 1..Len(CountsLogged) |-> CountsLogged[k][3]])
        /\ [k \in 1..Len(CountsLogged) |-> CountsLogged[k][2]] = regions
        /\ \A k \in 1..Len(scans) :
              /\ scans[k].region = regions[k]
              /\ Len(scans[k].out) = CountsLogged[k][3]
              /\ \A m \in 1..Len(scans[k].out) : scans[k].out[m]["Region"] = regions[k]
              /\ scans[k].fetched =>
                    scans[k].out = ExpectedOut(regions[k], Addresses(provider[regions[k]]),
                                               whitelist)
        /\ calls = [k \in 1..Len(regions) |-> <<"describe_addresses", regions[k]>>]

C9_Witness ==
    /\ pc = "done"
    /\ Len(regions) = 2
    /\ regions[1] # regions[2]
    /\ Len(scans[1].out) = 2
    /\ Len(scans[2].out) = 1
    /\ scans[1].out[1]["AllocationId"] # scans[1].out[2]["AllocationId"]
    /\ all_unassociated_eips = scans[1].out \o scans[2].out

\* C10: an allow-list file that exists and cannot be read, and an allow-listed
\* record without PublicIp, end the run with the exception: the run is not
\* continued, nothing is reported after it, and it never reaches its summary.
C10_OtherExceptionsPropagate ==
    /\ [][(pc = "load" /\ Present(args.whitelist) /\ file.kind = "unreadable") =>
            (pc' = "aborted" /\ exc' = "OSError")]_vars
    /\ [][(Classifying /\ AllowListed(resp[j], whitelist) /\ resp[j]["PublicIp"] = Missing) =>
            (pc' = "aborted" /\ exc' = "KeyError" /\ results' = results)]_vars
    /\ [][pc # "aborted"]_vars
    /\ [](pc = "done" => exc = "none")
    /\ [](pc = "aborted" <=> exc # "none")

C10_Witness ==
    /\ pc = "aborted"
    /\ exc = "KeyError"
    /\ results # <<>>
    /\ all_unassociated_eips = <<>>
====
